---- MODULE Spec2Model ----
(***************************************************************************)
(* Model of the go-dashscope client library:                               *)
(*   - the asynchronous task poller (AsyncCall / GetTaskWithClient /       *)
(*     WaitForTaskWithClient / Call) of dashscope/image_synthesis.go and   *)
(*     dashscope/transcription.go, under the specification Spec;           *)
(*   - the realtime speech recognition session of dashscope/recognition.go *)
(*     under the specification RecSpec;                                    *)
(*   - the multimodal dialog session (MultiModalDialog) under the          *)
(*     specification DlgSpec;                                              *)
(*   - the speech synthesis call (SpeechSynthesizer.Call) under the        *)
(*     specifications SynSpec and SynFairSpec.                             *)
(* One time unit is one second.                                            *)
(***************************************************************************)
EXTENDS Integers, Sequences, FiniteSets, TLC

\* ------------------------------------------------------------------------
\* Bounds of the model
\* ------------------------------------------------------------------------
\* No status read is issued after the MaxPolls-th one.
MaxPolls == 9
\* The outcomes of the first HistLen status reads of a call are recorded.
HistLen == 3

\* ------------------------------------------------------------------------
\* Task poller: values
\* ------------------------------------------------------------------------
Nil == "nil"

\* A *TaskResponse: the nil pointer, or a decoded body with its task_status.
NilResp == [isNil |-> TRUE, task_status |-> ""]
Snapshot(s) == [isNil |-> FALSE, task_status |-> s]

TaskStatusPending   == "PENDING"
TaskStatusRunning   == "RUNNING"
TaskStatusSucceeded == "SUCCEEDED"
TaskStatusFailed    == "FAILED"
TaskStatusCanceled  == "CANCELED"
TaskStatusUnknown   == "UNKNOWN"

\* The values the task_status field of a decoded body can hold: the six
\* documented ones and "" (the field is missing from the body).
StatusValues ==
    {TaskStatusPending, TaskStatusRunning, TaskStatusSucceeded,
     TaskStatusFailed, TaskStatusCanceled, TaskStatusUnknown, ""}

\* What one HTTP exchange of GetTaskWithClient can produce:
\*   neterr   client.Do fails (network failure)
\*   ctxerr   client.Do fails because the request's context is done
\*   badjson  the body does not decode
\*   http_err the body decodes, the HTTP status is not 200
\*   ok       the body decodes, the HTTP status is 200
RawFailures == {[kind |-> "neterr", status |-> ""],
                [kind |-> "badjson", status |-> ""]}
RawCtxErr   == [kind |-> "ctxerr", status |-> ""]
RawBodies   == [kind : {"http_err", "ok"}, status : StatusValues]
RawReads    == RawFailures \cup {RawCtxErr} \cup RawBodies

\* The error of a cancelled context (ctx.Err()).
CtxErr == "context canceled"

\* The task identifiers a submit response can carry ("" : none).
TaskIDs == {"", "T1"}

\* What one HTTP exchange of AsyncCall can produce.
RawSubmits ==
    {[kind |-> "neterr", task_id |-> ""], [kind |-> "badjson", task_id |-> ""]}
    \cup [kind : {"http_err", "ok"}, task_id : TaskIDs]

Entries == {"ImageSynthesis.Call", "Transcription.Call", "WaitForTask"}

\* ------------------------------------------------------------------------
\* Task poller: pure functions
\* ------------------------------------------------------------------------
\* time.Second multiples used by WaitForTaskWithClient.
InitialWaitSeconds == 1
maxWaitSeconds == 5
incrementSteps == 3

Min(a, b) == IF a < b THEN a ELSE b

\* GetTaskWithClient: (*TaskResponse, error) of one exchange.
GetTaskWithClient(raw) ==
    CASE raw.kind = "neterr"   -> [resp |-> NilResp, err |-> "transport"]
      [] raw.kind = "ctxerr"   -> [resp |-> NilResp, err |-> "transport: " \o CtxErr]
      [] raw.kind = "badjson"  -> [resp |-> NilResp, err |-> "decode"]
      [] raw.kind = "http_err" -> [resp |-> Snapshot(raw.status),
                                   err |-> "get task failed"]
      [] OTHER                 -> [resp |-> Snapshot(raw.status),
                                   err |-> Nil]

IsTerminal_OnlySucceeded(s) == s = TaskStatusSucceeded

IsTerminal_UnknownToo(s) ==
    s \in {TaskStatusSucceeded, TaskStatusFailed, TaskStatusCanceled,
           TaskStatusUnknown}

\* The terminal test of WaitForTaskWithClient.
IsTerminal(s) ==
    s = TaskStatusSucceeded \/ s = TaskStatusFailed \/ s = TaskStatusCanceled

NextWait_NoCap(w, st) ==
    IF w < maxWaitSeconds /\ st % incrementSteps = 0 THEN w * 2 ELSE w

NextWait_StepFromZero(w, st) ==
    IF w < maxWaitSeconds /\ (st - 1) % incrementSteps = 0
    THEN Min(w * 2, maxWaitSeconds)
    ELSE w

\* The interval update of WaitForTaskWithClient, run after a non-terminal read:
\* the interval for the wait that follows poll number st.
NextWait(w, st) ==
    IF w < maxWaitSeconds /\ st % incrementSteps = 0
    THEN Min(w * 2, maxWaitSeconds)
    ELSE w

ReadErrorReturn_KeepsSnapshot(got) == [resp |-> got.resp, err |-> got.err]

\* What WaitForTaskWithClient returns when a status read fails.
ReadErrorReturn(got) == [resp |-> NilResp, err |-> got.err]

TerminalReturn_FailureAsError(got) ==
    IF got.resp.task_status = TaskStatusSucceeded
    THEN [resp |-> got.resp, err |-> Nil]
    ELSE [resp |-> NilResp, err |-> "task " \o got.resp.task_status]

\* What WaitForTaskWithClient returns on a terminal status.
TerminalReturn(got) == [resp |-> got.resp, err |-> Nil]

CancelReturn_LastSnapshot(got) ==
    [resp |-> got.resp, err |-> CtxErr]

\* What WaitForTaskWithClient returns when ctx.Done() wins the select.
\* got: the result of the latest status read.
CancelReturn(got) == [resp |-> NilResp, err |-> CtxErr]

\* AsyncCall (ImageSynthesis and Transcription): (taskID, error).
AsyncCall(raw) ==
    CASE raw.kind = "neterr"   -> [id |-> "", err |-> "transport"]
      [] raw.kind = "badjson"  -> [id |-> "", err |-> "decode"]
      [] raw.kind = "http_err" -> [id |-> "", err |-> "async call failed"]
      [] OTHER                 -> [id |-> raw.task_id, err |-> Nil]

\* ------------------------------------------------------------------------
\* Task poller: state
\* ------------------------------------------------------------------------
VARIABLES
    entry,        \* the function the caller invoked
    pc,           \* "submit", "get" (status read in flight), "wait" (select),
                  \* "ret" (WaitForTask has returned), "callret" (Call has returned)
    taskID,       \* the identifier polled
    step,         \* number of status reads issued
    waitSeconds,  \* current interval
    timer,        \* time left until time.After(waitSeconds) fires
    cancelled,    \* ctx.Done() is closed
    reqCtxDead,   \* ctx was already done when the read in flight was issued
    last,         \* result of the latest GetTaskWithClient (NoRet before the first)
    reads,        \* history: raw outcome of the first HistLen reads
    waits,        \* history: the interval of every wait started
    exitVia,      \* history: the return statement WaitForTask left through
    cancelAt,     \* history: where the call was when ctx was cancelled
    ret,          \* return value of WaitForTask
    callRet       \* return value of Call

pvars == <<entry, pc, taskID, step, waitSeconds, timer, cancelled, reqCtxDead,
           last, reads, waits, exitVia, cancelAt, ret, callRet>>

NoRet == [resp |-> NilResp, err |-> Nil]

\* A caller either invokes Call (submit, then wait) or WaitForTask on a task
\* identifier it holds; the context may already be done at the call.
PInit ==
    /\ entry \in Entries
    /\ pc = IF entry = "WaitForTask" THEN "get" ELSE "submit"
    /\ taskID \in IF entry = "WaitForTask" THEN TaskIDs ELSE {""}
    /\ step = IF entry = "WaitForTask" THEN 1 ELSE 0
    /\ waitSeconds = InitialWaitSeconds
    /\ timer = 0
    /\ cancelled \in BOOLEAN
    /\ reqCtxDead = cancelled
    /\ last = NoRet
    /\ reads = <<>>
    /\ waits = <<>>
    /\ exitVia = Nil
    /\ cancelAt = IF cancelled THEN "call" ELSE Nil
    /\ ret = NoRet
    /\ callRet = NoRet

\* The outcomes the exchange in flight can have: a request issued on a done
\* context fails; one whose context is cancelled in flight may fail or complete.
Outcomes ==
    IF reqCtxDead THEN {RawCtxErr}
    ELSE IF cancelled THEN RawFailures \cup RawBodies \cup {RawCtxErr}
    ELSE RawFailures \cup RawBodies

\* Call, step 1: AsyncCall; on success WaitForTask starts its first read.
Submit ==
    /\ pc = "submit"
    /\ \E raw \in IF cancelled THEN {[kind |-> "neterr", task_id |-> ""]}
                  ELSE RawSubmits :
         LET r == AsyncCall(raw) IN
         IF r.err # Nil
         THEN /\ pc' = "callret"
              /\ callRet' = [resp |-> NilResp, err |-> r.err]
              /\ UNCHANGED <<taskID, step, reqCtxDead>>
         ELSE /\ pc' = "get"
              /\ taskID' = r.id
              /\ step' = 1
              /\ reqCtxDead' = cancelled
              /\ UNCHANGED callRet
    /\ UNCHANGED <<entry, waitSeconds, timer, cancelled, last, reads, waits,
                   exitVia, cancelAt, ret>>

Record(raw) == IF Len(reads) < HistLen THEN Append(reads, raw) ELSE reads

\* One loop iteration of WaitForTaskWithClient from the arrival of the
\* exchange's outcome to the return or to the select.
Poll ==
    /\ pc = "get"
    /\ \E raw \in Outcomes :
         LET got == GetTaskWithClient(raw) IN
         /\ last' = got
         /\ reads' = Record(raw)
         /\ IF got.err # Nil
            THEN /\ pc' = "ret"
                 /\ ret' = ReadErrorReturn(got)
                 /\ exitVia' = "readError"
                 /\ UNCHANGED <<waitSeconds, timer, waits>>
            ELSE IF IsTerminal(got.resp.task_status)
            THEN /\ pc' = "ret"
                 /\ ret' = TerminalReturn(got)
                 /\ exitVia' = "terminal"
                 /\ UNCHANGED <<waitSeconds, timer, waits>>
            ELSE /\ pc' = "wait"
                 /\ waitSeconds' = NextWait(waitSeconds, step)
                 /\ timer' = waitSeconds'
                 /\ waits' = Append(waits, waitSeconds')
                 /\ UNCHANGED <<ret, exitVia>>
    /\ UNCHANGED <<entry, taskID, step, cancelled, reqCtxDead, cancelAt,
                   callRet>>

\* Time passes while the loop is suspended in the select.
Tick ==
    /\ pc = "wait"
    /\ timer > 0
    /\ timer' = timer - 1
    /\ UNCHANGED <<entry, pc, taskID, step, waitSeconds, cancelled, reqCtxDead,
                   last, reads, waits, exitVia, cancelAt, ret, callRet>>

\* select: case <-time.After(waitSeconds); the next read is issued.
TimerFires ==
    /\ pc = "wait"
    /\ timer = 0
    /\ step < MaxPolls
    /\ pc' = "get"
    /\ step' = step + 1
    /\ reqCtxDead' = cancelled
    /\ UNCHANGED <<entry, taskID, waitSeconds, timer, cancelled, last, reads,
                   waits, exitVia, cancelAt, ret, callRet>>

\* select: case <-ctx.Done().
WaitCancelled ==
    /\ pc = "wait"
    /\ cancelled
    /\ pc' = "ret"
    /\ ret' = CancelReturn(last)
    /\ exitVia' = "ctxDone"
    /\ UNCHANGED <<entry, taskID, step, waitSeconds, timer, cancelled,
                   reqCtxDead, last, reads, waits, cancelAt, callRet>>

\* The caller cancels the context (or its deadline passes).
Cancel ==
    /\ ~cancelled
    /\ pc \in {"submit", "get", "wait"}
    /\ cancelled' = TRUE
    /\ cancelAt' = pc
    /\ UNCHANGED <<entry, pc, taskID, step, waitSeconds, timer, reqCtxDead,
                   last, reads, waits, exitVia, ret, callRet>>

\* Call, steps 2-3: WaitForTask has returned; convert its response.  The
\* results of an image task may fail to unmarshal.
CallReturn ==
    /\ pc = "ret"
    /\ entry # "WaitForTask"
    /\ pc' = "callret"
    /\ \E resultsOK \in IF entry = "ImageSynthesis.Call" /\ ret.err = Nil
                        THEN BOOLEAN ELSE {TRUE} :
         callRet' = IF ret.err # Nil THEN [resp |-> NilResp, err |-> ret.err]
                    ELSE IF ~resultsOK
                    THEN [resp |-> NilResp, err |-> "failed to unmarshal results"]
                    ELSE [resp |-> ret.resp, err |-> Nil]
    /\ UNCHANGED <<entry, taskID, step, waitSeconds, timer, cancelled,
                   reqCtxDead, last, reads, waits, exitVia, cancelAt, ret>>

\* ------------------------------------------------------------------------
\* Recognition session (dashscope/recognition.go): bounds and values
\* ------------------------------------------------------------------------
\* Calls of Start, Stop and SendAudioFrame made in one behaviour, by both
\* callers together.
MaxCalls == 3
\* Inbound messages delivered in one behaviour, on all connections together.
MaxMsgs == 2
\* The seconds that pass in one step of the clock.
TickSeconds == 5

\* time.After(10 * time.Second) in Stop.
StopTimeout == 10

\* The goroutines of the callers of the Recognition object: one drives the
\* session (Start, Stop), one feeds it audio (SendAudioFrame) and may stop it.
Callers == {"ctl", "aud"}
Ops(t) == IF t = "ctl" THEN {"Start", "Stop"} ELSE {"SendAudioFrame", "Stop"}
Free == "free"

Conns == 1..MaxCalls

\* What conn.ReadMessage can return on an open connection: a read error, or
\* a message.  Text messages by what the reader decodes:
\*   badjson    not JSON
\*   noheader   JSON without a header object
\*   noevent    a header without a string "event"
\*   started    event "task-started" (or any event the loop does not name)
\*   result     event "result-generated" with a payload object
\*   resultbad  event "result-generated" without a payload object
\*   finished   event "task-finished"
\*   failed     event "task-failed"
\* and binary: a message that is not a text message.
InboundMsgs == {"badjson", "noheader", "noevent", "started", "result",
                "resultbad", "finished", "failed", "binary"}

VARIABLES
    running,      \* r.running
    conn,         \* r.conn: 0 is nil, else the connection's number
    recTaskID,    \* r.taskID: 0 is "", else the number of the generated id
    mu,           \* r.mu: Free or the caller holding it
    wg,           \* r.wg: the WaitGroup's counter
    crashed,      \* the process has panicked
    th,           \* per caller, the call in progress and its locals:
                  \*   pc      where it is in Start / Stop / SendAudioFrame
                  \*   conn    the connection it writes to
                  \*   elapsed time since Stop armed time.After
                  \*   done    Stop's done channel: "none", "open", "closed"
                  \*   doneAt  (history) elapsed when done was closed, else -1
                  \*   via     (history) the select case Stop took
                  \*   forced  (history) the connection Stop closed, else 0
    res,          \* per caller: the last call that returned and its error
    connState,    \* per connection: "none", "open", "failed" (read error seen),
                  \* "closed" (conn.Close called)
    wire,         \* per connection: the messages written to it, in order
    recvd,        \* number of inbound messages delivered
    startedSeen,  \* history, per connection: a reader has read task-started
    rpc,          \* per reader (numbered as the connection its Start dialled):
                  \* "none", "eval", "read", "exit"
    rconn,        \* per reader: the connection its ReadMessage blocks on
    cb,           \* history, per session (numbered as its connection): the
                  \* callbacks invoked, in order
    nCalls,       \* calls made so far
    nStart        \* Start calls that generated a task id so far

rvars == <<running, conn, recTaskID, mu, wg, crashed, th, res, connState,
           wire, recvd, startedSeen, rpc, rconn, cb, nCalls, nStart>>

\* ------------------------------------------------------------------------
\* Multimodal dialog session (MultiModalDialog): bounds, values, variables
\* ------------------------------------------------------------------------
\* Calls of Start, SendAudio, StopSpeech and Close made in one behaviour.
MaxDlgCalls == 2
\* Inbound messages delivered in one behaviour, on all connections together.
MaxDlgMsgs == 2

DlgOps == {"Start", "SendAudio", "StopSpeech", "Close"}
DlgConns == 1..MaxDlgCalls

\* What d.Conn.ReadMessage can return besides an error: a binary message, or
\* a text message, by what the reader decodes:
\*   badjson  not the JSON of a MultiModalRealtimeResponse
\*   Started  payload.output.directive = ResponseStarted (stands for every
\*            directive with a case of its own except Error)
\*   Error    payload.output.directive = ResponseError
\*   other    a directive that no case of the switch names
DlgMsgs == {"binary", "badjson", "Started", "Error", "other"}

\* The callback method the switch of readLoop invokes for a message, or Nil.
DlgCallbackOf(m) ==
    CASE m = "binary"  -> "OnAudioData"
      [] m = "Started" -> "OnStarted"
      [] m = "Error"   -> "OnError"
      [] OTHER         -> Nil

VARIABLES
    dConn,      \* d.Conn: 0 is nil, else the connection's number
    dTaskID,    \* d.TaskID: 0 is "", else the number of the Start that set it
    dDialogID,  \* d.DialogID: 0 is "", else the connection it was read from
    dDone,      \* d.done: "open" or "closed"
    dCrashed,   \* the process has panicked
    dpc,        \* where the calling goroutine is in its call
    dres,       \* the last call that returned and its error
    dState,     \* per connection: "none", "open", "failed", "closed"
    dWire,      \* per connection: the messages written to it, in order
    dIn,        \* history, per connection: the messages ReadMessage returned,
                \* in order, each with the reader that got it
    dr,         \* per reader (numbered as the connection its Start dialled):
                \*   pc   "none", "eval", "read", "got", "cb", "defer",
                \*        "closing", "exit"
                \*   conn the connection its ReadMessage is called on
                \*   msg  the message (or "readerr") it is handling
                \*   at   the position of msg in dIn[conn]
    dcb,        \* history: the invocations of d.Callback's methods, in the
                \* order they began, each with its invoker and its message
    dBusy,      \* the invokers that are inside a method of d.Callback
    dCalls      \* calls made so far

dvars == <<dConn, dTaskID, dDialogID, dDone, dCrashed, dpc, dres, dState,
           dWire, dIn, dr, dcb, dBusy, dCalls>>

\* ------------------------------------------------------------------------
\* Speech synthesis (SpeechSynthesizer.Call): bounds, values, variables
\* ------------------------------------------------------------------------
\* Inbound messages delivered to one Call.
MaxSynMsgs == 3

\* The payloads of inbound binary messages: blocks of bytes.
Frames == {<<1>>, <<2, 3>>}
\* The values of payload["sentence"] in result-generated messages; "" when
\* the payload has no sentence.
SentenceValues == {"", "s1", "s2"}

SynMsg(t, frame, sentence) == [t |-> t, frame |-> frame, sentence |-> sentence]

\* What conn.ReadMessage can return besides an error: a binary message, or a
\* text message, by what Call decodes: text that is not JSON (badjson), the
\* four events of the switch, or an event it does not name (other).
SynMsgs ==
    {SynMsg("binary", f, "") : f \in Frames}
    \cup {SynMsg("result-generated", <<>>, x) : x \in SentenceValues}
    \cup {SynMsg(t, <<>>, "") :
            t \in {"badjson", "task-started", "task-finished", "task-failed",
                   "other"}}

\* The error built from a task-failed header with error_code X and
\* error_message Y.
TaskFailedErr == "task failed: X - Y"
ReadErr == "read error"

NilResult == [isNil |-> TRUE, AudioData |-> <<>>, Sentences |-> <<>>]
SynResult(audio, sentences) ==
    [isNil |-> FALSE, AudioData |-> audio, Sentences |-> sentences]

VARIABLES
    spc,        \* where Call is: "idle", "dial", "write", "read", "ret"
    sHasCb,     \* callback != nil
    sCtxDone,   \* the context passed to Call is cancelled
    sConn,      \* the connection: "none", "open", "closed"
    sWire,      \* the messages written to the connection
    sIn,        \* history: the messages ReadMessage returned, in order
    sAudio,     \* finalResult.AudioData
    sSentences, \* finalResult.Sentences
    scb,        \* history: the callback invocations, in order
    sret        \* what Call returned

svars == <<spc, sHasCb, sCtxDone, sConn, sWire, sIn, sAudio, sSentences,
           scb, sret>>

vars == <<pvars, rvars, dvars, svars>>

\* What a specification of one component leaves alone.
nonPoller == <<rvars, dvars, svars>>
nonRec == <<pvars, dvars, svars>>
nonDlg == <<pvars, rvars, svars>>
nonSyn == <<pvars, rvars, dvars>>

\* A caller that is in no call.
IdleLoc == [pc |-> "idle", conn |-> 0, elapsed |-> 0, done |-> "none",
            doneAt |-> -1, via |-> Nil, forced |-> 0]

\* NewRecognition: the zero value of every unexported field; no call yet.
RInit ==
    /\ running = FALSE
    /\ conn = 0
    /\ recTaskID = 0
    /\ mu = Free
    /\ wg = 0
    /\ crashed = FALSE
    /\ th = [t \in Callers |-> IdleLoc]
    /\ res = [t \in Callers |-> [op |-> Nil, err |-> Nil]]
    /\ connState = [c \in Conns |-> "none"]
    /\ wire = [c \in Conns |-> <<>>]
    /\ recvd = 0
    /\ startedSeen = [c \in Conns |-> FALSE]
    /\ rpc = [c \in Conns |-> "none"]
    /\ rconn = [c \in Conns |-> 0]
    /\ cb = [c \in Conns |-> <<>>]
    /\ nCalls = 0
    /\ nStart = 0

\* The task poller is not in use.
PIdle ==
    /\ entry = "WaitForTask"
    /\ pc = "idle"
    /\ taskID = ""
    /\ step = 0
    /\ waitSeconds = InitialWaitSeconds
    /\ timer = 0
    /\ cancelled = FALSE
    /\ reqCtxDead = FALSE
    /\ last = NoRet
    /\ reads = <<>>
    /\ waits = <<>>
    /\ exitVia = Nil
    /\ cancelAt = Nil
    /\ ret = NoRet
    /\ callRet = NoRet

\* The recognition session is not in use.
RIdle == RInit

\* A write on connection c can succeed only while c is open.
WriteOutcomes(c) == IF connState[c] = "open" THEN BOOLEAN ELSE {FALSE}

\* A message on the wire: its action, the task_id it carries, and (history)
\* whether a reader had read task-started on the connection when it was sent.
WireMsg(c, action, tid) ==
    [k |-> action, tid |-> tid, acked |-> startedSeen[c]]

\* A call returns: its locals are gone.
Return(t, op, err) ==
    /\ th' = [th EXCEPT ![t] = IdleLoc]
    /\ res' = [res EXCEPT ![t] = [op |-> op, err |-> err]]

\* The caller goes on to the next step of its call.
Goto(t, loc) == th' = [th EXCEPT ![t] = loc] /\ UNCHANGED res

\* A callback invocation: the function that made it and the method invoked.
Callback(by, name) == [by |-> by, name |-> name]

PNext ==
    \/ Submit /\ UNCHANGED nonPoller
    \/ Poll /\ UNCHANGED nonPoller
    \/ Tick /\ UNCHANGED nonPoller
    \/ TimerFires /\ UNCHANGED nonPoller
    \/ WaitCancelled /\ UNCHANGED nonPoller
    \/ Cancel /\ UNCHANGED nonPoller
    \/ CallReturn /\ UNCHANGED nonPoller

gShared == <<running, conn, recTaskID, mu, wg>>
gConn   == <<connState, wire, recvd, startedSeen>>
gReader == <<rpc, rconn>>
gCount  == <<nCalls, nStart>>

\* ---- Start (lines 59-122): no step of it takes r.mu -------------------
\* Lines 60-66: the running test, r.callback and a fresh r.taskID.
StartCall(t) ==
    /\ ~crashed
    /\ th[t].pc = "idle"
    /\ "Start" \in Ops(t)
    /\ nCalls < MaxCalls
    /\ nCalls' = nCalls + 1
    /\ IF running
       THEN /\ Return(t, "Start", "recognition already started")
            /\ UNCHANGED <<recTaskID, nStart>>
       ELSE /\ Goto(t, [th[t] EXCEPT !.pc = "start_dial"])
            /\ recTaskID' = nStart + 1
            /\ nStart' = nStart + 1
    /\ UNCHANGED <<running, conn, mu, wg, crashed, gConn, gReader, cb>>

\* The number of the next connection dialled.
NewConn == Cardinality({c \in Conns : connState[c] # "none"}) + 1

\* Lines 77-83: DialContext; on success r.conn = conn, r.running = true and
\* the write of run-task begins.
StartDial(t) ==
    /\ ~crashed
    /\ th[t].pc = "start_dial"
    /\ \E ok \in BOOLEAN :
         IF ok
         THEN /\ connState' = [connState EXCEPT ![NewConn] = "open"]
              /\ conn' = NewConn
              /\ running' = TRUE
              /\ Goto(t, [th[t] EXCEPT !.pc = "start_write", !.conn = NewConn])
         ELSE /\ Return(t, "Start", "dial failed")
              /\ UNCHANGED <<connState, conn, running>>
    /\ UNCHANGED <<recTaskID, mu, wg, crashed, wire, recvd, startedSeen,
                   gReader, cb, gCount>>

\* Lines 109-113: conn.WriteJSON(run-task) ends.
StartWrite(t) ==
    /\ ~crashed
    /\ th[t].pc = "start_write"
    /\ \E ok \in WriteOutcomes(th[t].conn) :
         IF ok
         THEN /\ wire' = [wire EXCEPT ![th[t].conn] =
                    Append(@, WireMsg(th[t].conn, "run-task", recTaskID))]
              /\ Goto(t, [th[t] EXCEPT !.pc = "start_open"])
              /\ UNCHANGED <<connState, running>>
         ELSE /\ connState' = [connState EXCEPT ![th[t].conn] = "closed"]
              /\ running' = FALSE
              /\ Return(t, "Start", "write failed")
              /\ UNCHANGED wire
    /\ UNCHANGED <<conn, recTaskID, mu, wg, crashed, recvd, startedSeen,
                   gReader, cb, gCount>>

\* Lines 115-121: OnOpen on the caller's goroutine, wg.Add(1), go readLoop.
StartOpen(t) ==
    /\ ~crashed
    /\ th[t].pc = "start_open"
    /\ cb' = [cb EXCEPT ![th[t].conn] = Append(@, Callback("Start", "OnOpen"))]
    /\ wg' = wg + 1
    /\ rpc' = [rpc EXCEPT ![th[t].conn] = "eval"]
    /\ Return(t, "Start", Nil)
    /\ UNCHANGED <<running, conn, recTaskID, mu, crashed, gConn, rconn,
                   gCount>>

\* ---- Stop (lines 125-169) ----------------------------------------------
\* Lines 126-143: Lock, the running test, and the write of finish-task on
\* r.conn begins (r.mu stays held).
StopCall(t) ==
    /\ ~crashed
    /\ th[t].pc = "idle"
    /\ "Stop" \in Ops(t)
    /\ nCalls < MaxCalls
    /\ mu = Free
    /\ nCalls' = nCalls + 1
    /\ IF ~running
       THEN /\ Return(t, "Stop", Nil)
            /\ UNCHANGED mu
       ELSE /\ mu' = t
            /\ Goto(t, [th[t] EXCEPT !.pc = "stop_write", !.conn = conn])
    /\ UNCHANGED <<running, conn, recTaskID, wg, crashed, gConn, gReader, cb,
                   nStart>>

\* Lines 143-157: the write ends (its error is dropped), Unlock, the waiter
\* goroutine is started and the select arms time.After.
StopWrite(t) ==
    /\ ~crashed
    /\ th[t].pc = "stop_write"
    /\ \E ok \in WriteOutcomes(th[t].conn) :
         wire' = IF ok
                 THEN [wire EXCEPT ![th[t].conn] =
                        Append(@, WireMsg(th[t].conn, "finish-task", recTaskID))]
                 ELSE wire
    /\ mu' = Free
    /\ Goto(t, [th[t] EXCEPT !.pc = "stop_select", !.done = "open",
                             !.elapsed = 0])
    /\ UNCHANGED <<running, conn, recTaskID, wg, crashed, connState, recvd,
                   startedSeen, gReader, cb, gCount>>

\* Lines 149-152: wg.Wait() returns and the waiter closes done.
Waiter(t) ==
    /\ ~crashed
    /\ th[t].done = "open"
    /\ wg = 0
    /\ Goto(t, [th[t] EXCEPT !.done = "closed", !.doneAt = th[t].elapsed])
    /\ UNCHANGED <<gShared, crashed, gConn, gReader, cb, gCount>>

TimerFired_AtOnce(t) == TRUE

\* time.After(10 * time.Second) has fired.
TimerFired(t) == th[t].elapsed >= StopTimeout

\* Line 155: case <-done.
StopDone(t) ==
    /\ ~crashed
    /\ th[t].pc = "stop_select"
    /\ th[t].done = "closed"
    /\ Goto(t, [th[t] EXCEPT !.pc = "stop_final", !.via = "done"])
    /\ UNCHANGED <<gShared, crashed, gConn, gReader, cb, gCount>>

\* Line 157: case <-time.After.
StopTimedOut(t) ==
    /\ ~crashed
    /\ th[t].pc = "stop_select"
    /\ TimerFired(t)
    /\ Goto(t, [th[t] EXCEPT !.pc = "stop_force", !.via = "timeout"])
    /\ UNCHANGED <<gShared, crashed, gConn, gReader, cb, gCount>>

\* Lines 159-163: Lock; r.conn.Close() if r.conn is not nil; Unlock.
StopForce(t) ==
    /\ ~crashed
    /\ th[t].pc = "stop_force"
    /\ mu = Free
    /\ IF conn # 0
       THEN /\ connState' = [connState EXCEPT ![conn] = "closed"]
            /\ Goto(t, [th[t] EXCEPT !.pc = "stop_final", !.forced = conn])
       ELSE /\ Goto(t, [th[t] EXCEPT !.pc = "stop_final"])
            /\ UNCHANGED connState
    /\ UNCHANGED <<gShared, crashed, wire, recvd, startedSeen, gReader, cb,
                   gCount>>

\* Lines 166-168: Lock; r.running = false; Unlock; Stop returns.
StopFinal(t) ==
    /\ ~crashed
    /\ th[t].pc = "stop_final"
    /\ mu = Free
    /\ running' = FALSE
    /\ Return(t, "Stop", Nil)
    /\ UNCHANGED <<conn, recTaskID, mu, wg, crashed, gConn, gReader, cb,
                   gCount>>

\* A goroutine blocked in Stop's select with a case ready runs at once: no
\* time passes while it is runnable.
SelectReady(t) ==
    /\ th[t].pc = "stop_select"
    /\ \/ th[t].done = "closed"
       \/ th[t].done = "open" /\ wg = 0
       \/ TimerFired(t)

\* TickSeconds pass for every Stop suspended in its select.
RecTick ==
    /\ ~crashed
    /\ \E t \in Callers : th[t].pc = "stop_select"
    /\ \A t \in Callers : ~SelectReady(t)
    /\ th' = [t \in Callers |->
                IF th[t].pc = "stop_select"
                THEN [th[t] EXCEPT !.elapsed = @ + TickSeconds]
                ELSE th[t]]
    /\ UNCHANGED <<gShared, crashed, res, gConn, gReader, cb, gCount>>

\* ---- SendAudioFrame (lines 172-179) -------------------------------------
\* Lines 173-178: Lock, the running test, and the write on r.conn begins.
SendCall(t) ==
    /\ ~crashed
    /\ th[t].pc = "idle"
    /\ "SendAudioFrame" \in Ops(t)
    /\ nCalls < MaxCalls
    /\ mu = Free
    /\ nCalls' = nCalls + 1
    /\ IF ~running
       THEN /\ Return(t, "SendAudioFrame", "recognition not running")
            /\ UNCHANGED mu
       ELSE /\ mu' = t
            /\ Goto(t, [th[t] EXCEPT !.pc = "send_write", !.conn = conn])
    /\ UNCHANGED <<running, conn, recTaskID, wg, crashed, gConn, gReader, cb,
                   nStart>>

\* Line 178 and the deferred Unlock: the write ends and its error is returned.
SendWrite(t) ==
    /\ ~crashed
    /\ th[t].pc = "send_write"
    /\ \E ok \in WriteOutcomes(th[t].conn) :
         IF ok
         THEN /\ wire' = [wire EXCEPT ![th[t].conn] =
                    Append(@, WireMsg(th[t].conn, "audio", 0))]
              /\ Return(t, "SendAudioFrame", Nil)
         ELSE /\ Return(t, "SendAudioFrame", "write failed")
              /\ UNCHANGED wire
    /\ mu' = Free
    /\ UNCHANGED <<running, conn, recTaskID, wg, crashed, connState, recvd,
                   startedSeen, gReader, cb, gCount>>

\* ---- readLoop (lines 181-252) -------------------------------------------
\* Line 190: the loop evaluates r.conn and blocks in ReadMessage on it.
ReaderEval(k) ==
    /\ ~crashed
    /\ rpc[k] = "eval"
    /\ rconn' = [rconn EXCEPT ![k] = conn]
    /\ rpc' = [rpc EXCEPT ![k] = "read"]
    /\ UNCHANGED <<gShared, crashed, th, res, gConn, cb, gCount>>

\* The callbacks of one loop iteration on message m, and whether the loop
\* goes on ("eval"), returns ("exit") or panics ("panic").
Dispatch(k, m) ==
    CASE m = "badjson"  -> [cbs |-> <<Callback("readLoop", "OnError")>>,
                            to |-> "eval"]
      [] m = "noevent"  -> [cbs |-> <<>>, to |-> "panic"]
      [] m = "failed"   -> [cbs |-> <<Callback("readLoop", "OnError")>>,
                            to |-> "exit"]
      [] m = "finished" -> [cbs |-> <<Callback("readLoop", "OnComplete")>>,
                            to |-> "exit"]
      [] m = "result"   -> [cbs |-> <<Callback("readLoop", "OnEvent")>>,
                            to |-> "eval"]
      [] OTHER          -> [cbs |-> <<>>, to |-> "eval"]

\* Lines 191-199: what ReadMessage's error leads to: OnError unless the
\* session is not running or the connection was closed by this process.
OnReadError(k, c) ==
    IF running /\ connState[c] # "closed"
    THEN <<Callback("readLoop", "OnError")>>
    ELSE <<>>

\* Lines 181-252: readLoop assigns to none of r.running, r.conn, r.taskID
\* and never takes r.mu.
ReaderKeeps_ClearsRunning ==
    running' = FALSE /\ UNCHANGED <<conn, recTaskID, mu>>

ReaderKeeps == UNCHANGED <<running, conn, recTaskID, mu>>

\* Lines 182-187: the deferred calls of readLoop: OnClose, then wg.Done().
ReaderExit(k, cbs) ==
    /\ cb' = [cb EXCEPT ![k] = @ \o cbs \o <<Callback("readLoop", "OnClose")>>]
    /\ wg' = wg - 1
    /\ rpc' = [rpc EXCEPT ![k] = "exit"]

\* ReadMessage fails: the connection was closed here, had failed already, or
\* fails now.
ReaderReadError(k) ==
    /\ ~crashed
    /\ rpc[k] = "read"
    /\ connState[rconn[k]] \in {"open", "failed", "closed"}
    /\ ReaderExit(k, OnReadError(k, rconn[k]))
    /\ connState' = [connState EXCEPT ![rconn[k]] =
                       IF @ = "open" THEN "failed" ELSE @]
    /\ ReaderKeeps
    /\ UNCHANGED <<crashed, th, res, wire, recvd, startedSeen, rconn, gCount>>

\* ReadMessage returns a message and the loop body handles it.
ReaderRecv(k) ==
    /\ ~crashed
    /\ rpc[k] = "read"
    /\ connState[rconn[k]] = "open"
    /\ recvd < MaxMsgs
    /\ \E m \in InboundMsgs :
         LET d == Dispatch(k, m) IN
         /\ recvd' = recvd + 1
         /\ startedSeen' = [startedSeen EXCEPT ![rconn[k]] = @ \/ m = "started"]
         /\ IF d.to = "eval"
            THEN /\ cb' = [cb EXCEPT ![k] = @ \o d.cbs]
                 /\ rpc' = [rpc EXCEPT ![k] = "eval"]
                 /\ UNCHANGED <<wg, crashed>>
            ELSE /\ ReaderExit(k, d.cbs)
                 /\ crashed' = (d.to = "panic")
    /\ ReaderKeeps
    /\ UNCHANGED <<th, res, connState, wire, rconn, gCount>>

\* ------------------------------------------------------------------------
\* Speech synthesis: SpeechSynthesizer.Call (part_004 lines 114-250), which
\* runs on the caller's goroutine from the dial to the return
\* ------------------------------------------------------------------------
SynNoRet == [result |-> NilResult, err |-> "none"]

SInit ==
    /\ spc = "idle"
    /\ sHasCb \in BOOLEAN
    /\ sCtxDone = FALSE
    /\ sConn = "none"
    /\ sWire = <<>>
    /\ sIn = <<>>
    /\ sAudio = <<>>
    /\ sSentences = <<>>
    /\ scb = <<>>
    /\ sret = SynNoRet

\* The synthesizer is not in use.
SIdle == SInit /\ sHasCb = FALSE

\* A callback invocation and what it carries.
SynCb(name, frame, sentence, err) ==
    [name |-> name, frame |-> frame, sentence |-> sentence, err |-> err]

\* The invocations made when callback != nil (lines 137, 175, 185, ...).
IfCb(cbs) == IF sHasCb THEN cbs ELSE <<>>

\* Line 183: the frame is appended to the accumulated audio.
SynAccumulate_Replace(audio, frame) == frame

SynAccumulate(audio, frame) == audio \o frame

\* Lines 178 and 244: what Call returns as its result on an error.
SynErrorResult_Partial(audio, sentences) == SynResult(audio, sentences)

SynErrorResult(audio, sentences) == NilResult

\* Call returns after the dial succeeded: the deferred OnClose (registered
\* when callback != nil), then the deferred conn.Close().
SynReturn(cbs, result, err) ==
    /\ scb' = scb \o IfCb(cbs \o <<SynCb("OnClose", <<>>, "", "")>>)
    /\ sConn' = "closed"
    /\ sret' = [result |-> result, err |-> err]
    /\ spc' = "ret"

\* Lines 115-117: the API key test.
SynCall ==
    /\ spc = "idle"
    /\ \E key \in BOOLEAN :
         IF key
         THEN spc' = "dial" /\ UNCHANGED sret
         ELSE /\ spc' = "ret"
              /\ sret' = [result |-> NilResult, err |-> "API key is required"]
    /\ UNCHANGED <<sHasCb, sCtxDone, sConn, sWire, sIn, sAudio, sSentences,
                   scb>>

\* Lines 127-140: DialContext, which fails on a cancelled context; on
\* success the deferred calls are registered and OnOpen is invoked.
SynDial ==
    /\ spc = "dial"
    /\ \E ok \in (IF sCtxDone THEN {FALSE} ELSE BOOLEAN) :
         IF ok
         THEN /\ sConn' = "open"
              /\ scb' = scb \o IfCb(<<SynCb("OnOpen", <<>>, "", "")>>)
              /\ spc' = "write"
              /\ UNCHANGED sret
         ELSE /\ spc' = "ret"
              /\ sret' = [result |-> NilResult,
                          err |-> "failed to connect to websocket"]
              /\ UNCHANGED <<sConn, scb>>
    /\ UNCHANGED <<sHasCb, sCtxDone, sWire, sIn, sAudio, sSentences>>

\* Lines 143-169: the run-task message is written.
SynWrite ==
    /\ spc = "write"
    /\ \E ok \in BOOLEAN :
         IF ok
         THEN /\ sWire' = Append(sWire, "run-task")
              /\ spc' = "read"
              /\ UNCHANGED <<sConn, scb, sret>>
         ELSE /\ SynReturn(<<>>, NilResult, "failed to send request")
              /\ UNCHANGED sWire
    /\ UNCHANGED <<sHasCb, sCtxDone, sIn, sAudio, sSentences>>

\* Lines 173-179: ReadMessage fails.
SynReadError ==
    /\ spc = "read"
    /\ SynReturn(<<SynCb("OnError", <<>>, "", ReadErr)>>,
                 SynErrorResult(sAudio, sSentences), ReadErr)
    /\ UNCHANGED <<sHasCb, sCtxDone, sWire, sIn, sAudio, sSentences>>

\* Lines 173-248: ReadMessage returns message m and the loop body handles it.
SynRecv ==
    /\ spc = "read"
    /\ Len(sIn) < MaxSynMsgs
    /\ \E m \in SynMsgs :
         /\ sIn' = Append(sIn, m)
         /\ CASE m.t = "binary" ->
                   /\ sAudio' = SynAccumulate(sAudio, m.frame)
                   /\ scb' = scb \o IfCb(<<SynCb("OnEvent", m.frame, "", "")>>)
                   /\ UNCHANGED <<sSentences, spc, sConn, sret>>
              [] m.t = "badjson" ->
                   /\ scb' = scb \o IfCb(<<SynCb("OnError", <<>>, "",
                                             "failed to unmarshal response")>>)
                   /\ UNCHANGED <<sAudio, sSentences, spc, sConn, sret>>
              [] m.t = "result-generated" ->
                   /\ sSentences' = IF m.sentence # ""
                                    THEN Append(sSentences, m.sentence)
                                    ELSE sSentences
                   /\ scb' = scb \o IfCb(<<SynCb("OnEvent", <<>>, m.sentence,
                                             "")>>)
                   /\ UNCHANGED <<sAudio, spc, sConn, sret>>
              [] m.t = "task-finished" ->
                   /\ SynReturn(<<SynCb("OnComplete", <<>>, "", "")>>,
                                SynResult(sAudio, sSentences), Nil)
                   /\ UNCHANGED <<sAudio, sSentences>>
              [] m.t = "task-failed" ->
                   /\ SynReturn(<<SynCb("OnError", <<>>, "", TaskFailedErr)>>,
                                SynErrorResult(sAudio, sSentences),
                                TaskFailedErr)
                   /\ UNCHANGED <<sAudio, sSentences>>
              [] OTHER ->
                   UNCHANGED <<sAudio, sSentences, scb, spc, sConn, sret>>
    /\ UNCHANGED <<sHasCb, sCtxDone, sWire>>

\* The caller cancels the context it passed to Call.
SynCancel ==
    /\ ~sCtxDone
    /\ spc # "ret"
    /\ sCtxDone' = TRUE
    /\ UNCHANGED <<spc, sHasCb, sConn, sWire, sIn, sAudio, sSentences, scb,
                   sret>>

SNext ==
    \/ SynCall /\ UNCHANGED nonSyn
    \/ SynDial /\ UNCHANGED nonSyn
    \/ SynWrite /\ UNCHANGED nonSyn
    \/ SynReadError /\ UNCHANGED nonSyn
    \/ SynRecv /\ UNCHANGED nonSyn
    \/ SynCancel /\ UNCHANGED nonSyn

\* ------------------------------------------------------------------------
\* Multimodal dialog session: NewDialog, Start, SendAudio, StopSpeech,
\* Close and readLoop.  The dialog has no lock; one goroutine calls it.
\* ------------------------------------------------------------------------
DlgNoRead == [pc |-> "none", conn |-> 0, msg |-> Nil, at |-> 0]

\* NewDialog: d.done is made once, every other field is its zero value.
DInit ==
    /\ dConn = 0
    /\ dTaskID = 0
    /\ dDialogID = 0
    /\ dDone = "open"
    /\ dCrashed = FALSE
    /\ dpc = "idle"
    /\ dres = [op |-> Nil, err |-> Nil]
    /\ dState = [c \in DlgConns |-> "none"]
    /\ dWire = [c \in DlgConns |-> <<>>]
    /\ dIn = [c \in DlgConns |-> <<>>]
    /\ dr = [k \in DlgConns |-> DlgNoRead]
    /\ dcb = <<>>
    /\ dBusy = {}
    /\ dCalls = 0

\* The dialog is not in use.
DIdle == DInit

\* The goroutine that calls the dialog's methods, as an invoker of callbacks
\* (the readers are invokers 1, 2, ...).
DlgCaller == 0

\* A method of d.Callback is entered by invoker `by` for the message at
\* position `at` of connection c's inbound messages (0, 0 when for none).
DlgEnter(by, name, c, at) ==
    /\ dcb' = Append(dcb, [by |-> by, name |-> name, conn |-> c, at |-> at])
    /\ dBusy' = dBusy \cup {by}

DlgReturn(op, err) ==
    /\ dpc' = "idle"
    /\ dres' = [op |-> op, err |-> err]

DlgWriteOutcomes(c) == IF dState[c] = "open" THEN BOOLEAN ELSE {FALSE}

DlgNewConn == Cardinality({c \in DlgConns : dState[c] # "none"}) + 1

RECURSIVE DlgRecvdUpTo(_)
DlgRecvdUpTo(n) == IF n = 0 THEN 0 ELSE Len(dIn[n]) + DlgRecvdUpTo(n - 1)
\* The inbound messages delivered so far.
DlgRecvd == DlgRecvdUpTo(MaxDlgCalls)

\* ---- Start (part_003 lines 332-386) -------------------------------------
\* Lines 333-346: DialContext; on success d.Conn = conn and OnConnected is
\* entered on the caller's goroutine.
DlgStartDial ==
    /\ ~dCrashed
    /\ dpc = "idle"
    /\ dCalls < MaxDlgCalls
    /\ dCalls' = dCalls + 1
    /\ \E ok \in BOOLEAN :
         IF ok
         THEN /\ dState' = [dState EXCEPT ![DlgNewConn] = "open"]
              /\ dConn' = DlgNewConn
              /\ DlgEnter(DlgCaller, "OnConnected", DlgNewConn, 0)
              /\ dpc' = "start_connected"
              /\ UNCHANGED dres
         ELSE /\ DlgReturn("Start", "websocket dial failed")
              /\ UNCHANGED <<dState, dConn, dcb, dBusy>>
    /\ UNCHANGED <<dTaskID, dDialogID, dDone, dCrashed, dWire, dIn, dr>>

\* Lines 346-385: OnConnected returns, go d.readLoop(), d.TaskID is set and
\* the write of the Start message on d.Conn begins.
DlgStartSpawn ==
    /\ ~dCrashed
    /\ dpc = "start_connected"
    /\ dBusy' = dBusy \ {DlgCaller}
    /\ dr' = [dr EXCEPT ![dConn] = [DlgNoRead EXCEPT !.pc = "eval"]]
    /\ dTaskID' = dConn
    /\ dpc' = "start_write"
    /\ UNCHANGED <<dConn, dDialogID, dDone, dCrashed, dres, dState, dWire,
                   dIn, dcb, dCalls>>

\* Line 385: d.Conn.WriteJSON(req) ends and its error is returned.
DlgStartWrite ==
    /\ ~dCrashed
    /\ dpc = "start_write"
    /\ \E ok \in DlgWriteOutcomes(dConn) :
         IF ok
         THEN /\ dWire' = [dWire EXCEPT ![dConn] =
                    Append(@, [k |-> "Start", tid |-> dTaskID])]
              /\ DlgReturn("Start", Nil)
         ELSE /\ DlgReturn("Start", "write failed")
              /\ UNCHANGED dWire
    /\ UNCHANGED <<dConn, dTaskID, dDialogID, dDone, dCrashed, dState, dIn,
                   dr, dcb, dBusy, dCalls>>

\* ---- SendAudio (435-437), StopSpeech (439-447) --------------------------
\* d.Conn.WriteMessage / WriteJSON with no test at all: a nil d.Conn is
\* dereferenced (panic); else the write's error is returned.
DlgWrite(op, kind) ==
    /\ ~dCrashed
    /\ dpc = "idle"
    /\ dCalls < MaxDlgCalls
    /\ dCalls' = dCalls + 1
    /\ IF dConn = 0
       THEN /\ dCrashed' = TRUE
            /\ UNCHANGED <<dWire, dpc, dres>>
       ELSE /\ \E ok \in DlgWriteOutcomes(dConn) :
                 IF ok
                 THEN /\ dWire' = [dWire EXCEPT ![dConn] =
                            Append(@, [k |-> kind, tid |-> dTaskID])]
                      /\ DlgReturn(op, Nil)
                 ELSE /\ DlgReturn(op, "write failed")
                      /\ UNCHANGED dWire
            /\ UNCHANGED dCrashed
    /\ UNCHANGED <<dConn, dTaskID, dDialogID, dDone, dState, dIn, dr, dcb,
                   dBusy>>

SendAudio == DlgWrite("SendAudio", "audio")

StopSpeech == DlgWrite("StopSpeech", "StopSpeech")

\* ---- Close (449-454) ----------------------------------------------------
DlgClose ==
    /\ ~dCrashed
    /\ dpc = "idle"
    /\ dCalls < MaxDlgCalls
    /\ dCalls' = dCalls + 1
    /\ IF dConn # 0
       THEN /\ dState' = [dState EXCEPT ![dConn] = "closed"]
            /\ DlgReturn("Close",
                  IF dState[dConn] = "closed" THEN "close failed" ELSE Nil)
       ELSE /\ DlgReturn("Close", Nil)
            /\ UNCHANGED dState
    /\ UNCHANGED <<dConn, dTaskID, dDialogID, dDone, dCrashed, dWire, dIn,
                   dr, dcb, dBusy>>

\* ---- readLoop (388-433) --------------------------------------------------
\* Line 395: the loop evaluates d.Conn and calls ReadMessage on it.
DlgEval(k) ==
    /\ ~dCrashed
    /\ dr[k].pc = "eval"
    /\ dr' = [dr EXCEPT ![k] = [@ EXCEPT !.pc = "read", !.conn = dConn]]
    /\ UNCHANGED <<dConn, dTaskID, dDialogID, dDone, dCrashed, dpc, dres,
                   dState, dWire, dIn, dcb, dBusy, dCalls>>

\* ReadMessage returns the next inbound message of the connection.
DlgRecv(k) ==
    /\ ~dCrashed
    /\ dr[k].pc = "read"
    /\ dState[dr[k].conn] = "open"
    /\ DlgRecvd < MaxDlgMsgs
    /\ \E m \in DlgMsgs :
         /\ dIn' = [dIn EXCEPT ![dr[k].conn] = Append(@, [m |-> m, by |-> k])]
         /\ dr' = [dr EXCEPT ![k] = [@ EXCEPT !.pc = "got", !.msg = m,
                                     !.at = Len(dIn[dr[k].conn]) + 1]]
    /\ UNCHANGED <<dConn, dTaskID, dDialogID, dDone, dCrashed, dpc, dres,
                   dState, dWire, dcb, dBusy, dCalls>>

\* ReadMessage returns an error: the connection was closed by Close, had
\* failed already, or fails now.
DlgReadError(k) ==
    /\ ~dCrashed
    /\ dr[k].pc = "read"
    /\ dState[dr[k].conn] \in {"open", "failed", "closed"}
    /\ dState' = [dState EXCEPT ![dr[k].conn] =
                    IF @ = "open" THEN "failed" ELSE @]
    /\ dr' = [dr EXCEPT ![k] = [@ EXCEPT !.pc = "got", !.msg = "readerr",
                                !.at = 0]]
    /\ UNCHANGED <<dConn, dTaskID, dDialogID, dDone, dCrashed, dpc, dres,
                   dWire, dIn, dcb, dBusy, dCalls>>

\* Lines 396-431: the loop body on what ReadMessage returned: OnError for a
\* read error, OnAudioData for a binary message, nothing for text that does
\* not decode or whose directive has no case, else the directive's method
\* (ResponseStarted stores d.DialogID first).
DlgDispatch(k) ==
    /\ ~dCrashed
    /\ dr[k].pc = "got"
    /\ LET m == dr[k].msg
           name == IF m = "readerr" THEN "OnError" ELSE DlgCallbackOf(m)
       IN  /\ IF name = Nil
              THEN /\ dr' = [dr EXCEPT ![k] = [@ EXCEPT !.pc = "eval"]]
                   /\ UNCHANGED <<dcb, dBusy>>
              ELSE /\ dr' = [dr EXCEPT ![k] = [@ EXCEPT !.pc = "cb"]]
                   /\ DlgEnter(k, name, dr[k].conn, dr[k].at)
           /\ dDialogID' = IF m = "Started" THEN dr[k].conn ELSE dDialogID
    /\ UNCHANGED <<dConn, dTaskID, dDone, dCrashed, dpc, dres, dState, dWire,
                   dIn, dCalls>>

\* Where the loop goes when the method invoked for message m returns: only
\* a read error leaves the loop (line 398); ResponseError does not.
DlgAfter_ErrorEnds(m) == IF m \in {"readerr", "Error"} THEN "defer" ELSE "eval"

DlgAfter(m) == IF m = "readerr" THEN "defer" ELSE "eval"

\* The callback method returns.
DlgCallbackEnd(k) ==
    /\ ~dCrashed
    /\ dr[k].pc = "cb"
    /\ dBusy' = dBusy \ {k}
    /\ dr' = [dr EXCEPT ![k] = [@ EXCEPT !.pc = DlgAfter(dr[k].msg)]]
    /\ UNCHANGED <<dConn, dTaskID, dDialogID, dDone, dCrashed, dpc, dres,
                   dState, dWire, dIn, dcb, dCalls>>

\* Lines 389-392, the deferred function: close(d.done), which panics when
\* d.done is closed already, then OnClose(0, "connection closed") is entered.
DlgDefer(k) ==
    /\ ~dCrashed
    /\ dr[k].pc = "defer"
    /\ IF dDone = "closed"
       THEN /\ dCrashed' = TRUE
            /\ dr' = [dr EXCEPT ![k] = [@ EXCEPT !.pc = "exit"]]
            /\ UNCHANGED <<dDone, dcb, dBusy>>
       ELSE /\ dDone' = "closed"
            /\ dr' = [dr EXCEPT ![k] = [@ EXCEPT !.pc = "closing"]]
            /\ DlgEnter(k, "OnClose", dr[k].conn, 0)
            /\ UNCHANGED dCrashed
    /\ UNCHANGED <<dConn, dTaskID, dDialogID, dpc, dres, dState, dWire, dIn,
                   dCalls>>

\* OnClose returns and the reader goroutine ends.
DlgExit(k) ==
    /\ ~dCrashed
    /\ dr[k].pc = "closing"
    /\ dBusy' = dBusy \ {k}
    /\ dr' = [dr EXCEPT ![k] = [@ EXCEPT !.pc = "exit"]]
    /\ UNCHANGED <<dConn, dTaskID, dDialogID, dDone, dCrashed, dpc, dres,
                   dState, dWire, dIn, dcb, dCalls>>

DNext ==
    \/ DlgStartDial /\ UNCHANGED nonDlg
    \/ DlgStartSpawn /\ UNCHANGED nonDlg
    \/ DlgStartWrite /\ UNCHANGED nonDlg
    \/ SendAudio /\ UNCHANGED nonDlg
    \/ StopSpeech /\ UNCHANGED nonDlg
    \/ DlgClose /\ UNCHANGED nonDlg
    \/ \E k \in DlgConns :
         \/ DlgEval(k) /\ UNCHANGED nonDlg
         \/ DlgRecv(k) /\ UNCHANGED nonDlg
         \/ DlgReadError(k) /\ UNCHANGED nonDlg
         \/ DlgDispatch(k) /\ UNCHANGED nonDlg
         \/ DlgCallbackEnd(k) /\ UNCHANGED nonDlg
         \/ DlgDefer(k) /\ UNCHANGED nonDlg
         \/ DlgExit(k) /\ UNCHANGED nonDlg

DlgInit == DInit /\ PIdle /\ RIdle /\ SIdle

DlgSpec == DlgInit /\ [][DNext]_vars

\* ------------------------------------------------------------------------
\* Recognition session: next-state relation and specification
\* ------------------------------------------------------------------------

RNext ==
    \/ \E t \in Callers :
         \/ StartCall(t) /\ UNCHANGED nonRec
         \/ StartDial(t) /\ UNCHANGED nonRec
         \/ StartWrite(t) /\ UNCHANGED nonRec
         \/ StartOpen(t) /\ UNCHANGED nonRec
         \/ StopCall(t) /\ UNCHANGED nonRec
         \/ StopWrite(t) /\ UNCHANGED nonRec
         \/ Waiter(t) /\ UNCHANGED nonRec
         \/ StopDone(t) /\ UNCHANGED nonRec
         \/ StopTimedOut(t) /\ UNCHANGED nonRec
         \/ StopForce(t) /\ UNCHANGED nonRec
         \/ StopFinal(t) /\ UNCHANGED nonRec
         \/ SendCall(t) /\ UNCHANGED nonRec
         \/ SendWrite(t) /\ UNCHANGED nonRec
    \/ \E k \in Conns :
         \/ ReaderEval(k) /\ UNCHANGED nonRec
         \/ ReaderReadError(k) /\ UNCHANGED nonRec
         \/ ReaderRecv(k) /\ UNCHANGED nonRec
    \/ RecTick /\ UNCHANGED nonRec

RecInit == RInit /\ PIdle /\ DIdle /\ SIdle

RecSpec == RecInit /\ [][RNext]_vars

Init == PInit /\ RIdle /\ DIdle /\ SIdle

Next == PNext

Spec == Init /\ [][Next]_vars

\* The same behaviours under the scheduling the runtime guarantees: the select
\* is left once a case is ready, timers run down and fire, an exchange whose
\* context is done ends, and Call goes on after WaitForTask returns.  An
\* exchange on a live context may never end (the default client has no
\* timeout), and the caller need never cancel.
FairSpec ==
    /\ Spec
    /\ WF_vars(cancelled /\ Submit /\ UNCHANGED nonPoller)
    /\ WF_vars(cancelled /\ Poll /\ UNCHANGED nonPoller)
    /\ WF_vars(Tick /\ UNCHANGED nonPoller)
    /\ WF_vars(TimerFires /\ UNCHANGED nonPoller)
    /\ WF_vars(WaitCancelled /\ UNCHANGED nonPoller)
    /\ WF_vars(CallReturn /\ UNCHANGED nonPoller)

SynInit == SInit /\ PIdle /\ RIdle /\ DIdle

SynSpec == SynInit /\ [][SNext]_vars

\* The same behaviours under the scheduling of the goroutine that runs Call:
\* it goes on whenever it is not blocked.  The dial and the write end; a
\* ReadMessage need never return, since the server may send nothing and the
\* connection may never fail.
SynFairSpec ==
    /\ SynSpec
    /\ WF_vars(SynCall /\ UNCHANGED nonSyn)
    /\ WF_vars(SynDial /\ UNCHANGED nonSyn)
    /\ WF_vars(SynWrite /\ UNCHANGED nonSyn)

\* ------------------------------------------------------------------------
\* Task poller: claims
\* ------------------------------------------------------------------------
RunningRead   == [kind |-> "ok", status |-> "RUNNING"]
SucceededRead == [kind |-> "ok", status |-> "SUCCEEDED"]
TerminalNames == {"SUCCEEDED", "FAILED", "CANCELED"}

\* The latest status read returned a decoded 200 body.
LastOK == Len(reads) > 0 /\ last.err = Nil

\* C1: the wait interval starts at 1, doubles at every 3rd poll, is capped at
\* 5, never decreases from one wait to the next and never exceeds 5.
C1_BackoffMonotoneCapped ==
    /\ waitSeconds \in 1..5
    /\ timer \in 0..waitSeconds
    /\ \A i \in 1..Len(waits) :
         /\ waits[i] <= 5
         /\ i = 1 => waits[i] = 1
         /\ i > 1 => waits[i] >= waits[i - 1]
         /\ i > 1 => waits[i] = IF i % 3 = 0
                                THEN (IF 2 * waits[i - 1] > 5 THEN 5
                                      ELSE 2 * waits[i - 1])
                                ELSE waits[i - 1]

\* C1 witness: a run long enough for the interval to reach the cap.
C1_Witness == Len(waits) >= 9 /\ waits[8] = 4 /\ waits[9] = 5

\* C2 (as stated): reads RUNNING, RUNNING, SUCCEEDED give waits of 1, 1 and 2
\* and the SUCCEEDED snapshot.
C2_Original ==
    (exitVia = "terminal" /\ step = 3
     /\ reads = <<RunningRead, RunningRead, SucceededRead>>)
    => /\ waits = <<1, 1, 2>>
       /\ ret.resp = Snapshot("SUCCEEDED")

\* C2 (amended): reads RUNNING, RUNNING, SUCCEEDED give exactly two waits, of 1
\* and 1 (2 time units in all), and the SUCCEEDED snapshot with a nil error;
\* the wait of 2 is started only when the 3rd read is not terminal either.
C2_ScenarioA ==
    /\ (exitVia = "terminal" /\ step = 3
        /\ reads = <<RunningRead, RunningRead, SucceededRead>>)
       => /\ waits = <<1, 1>>
          /\ waitSeconds = 1
          /\ ret = [resp |-> Snapshot("SUCCEEDED"), err |-> Nil]
    /\ (step = 3 /\ pc = "wait"
        /\ reads = <<RunningRead, RunningRead, RunningRead>>)
       => waits = <<1, 1, 2>>

\* C2 witness: the scenario's call has returned.
C2_Witness ==
    /\ exitVia = "terminal"
    /\ step = 3
    /\ reads = <<RunningRead, RunningRead, SucceededRead>>
    /\ entry = "WaitForTask"

\* C3: once a status read has returned a terminal status, or the context is
\* done, WaitForTask eventually returns to its caller.
C3_Terminates ==
    (cancelled \/ (LastOK /\ last.resp.task_status \in TerminalNames))
    ~> (pc \in {"ret", "callret"})

\* C3 witness: a call that returned after the context was cancelled during its
\* fourth wait.
C3_Witness ==
    pc = "ret" /\ cancelAt = "wait" /\ Len(waits) = 4 /\ exitVia = "ctxDone"

\* C4: a failed status read ends the call at once: the error is returned with
\* no snapshot and no further read is issued.
C4_ReadErrorAborts ==
    (Len(reads) > 0 /\ last.err # Nil)
    => /\ pc \in {"ret", "callret"}
       /\ exitVia = "readError"
       /\ ret = [resp |-> NilResp, err |-> last.err]

\* C4 witness: the fourth read came back with a non-200 status and a body.
C4_Witness ==
    exitVia = "readError" /\ step = 4 /\ ~last.resp.isNil /\ ret.resp = NilResp

\* C5: a read reporting FAILED or CANCELED ends the call with that snapshot as
\* the result and a nil error.
C5_BusinessFailureIsResult ==
    (LastOK /\ last.resp.task_status \in {"FAILED", "CANCELED"})
    => /\ pc \in {"ret", "callret"}
       /\ exitVia = "terminal"
       /\ ret = [resp |-> Snapshot(last.resp.task_status), err |-> Nil]

\* C5 witness: a call that ended on a CANCELED snapshot after two waits.
C5_Witness ==
    /\ exitVia = "terminal"
    /\ ret.resp = Snapshot("CANCELED")
    /\ Len(waits) = 2

\* C6: a call whose context is cancelled while it is suspended between polls
\* returns no snapshot and the context's error; leaving through ctx.Done()
\* returns exactly (nil, ctx.Err()), which no snapshot return equals.
C6_CancelOutcome ==
    /\ exitVia = "ctxDone"
       => /\ cancelled
          /\ ret = [resp |-> NilResp, err |-> CtxErr]
    /\ (cancelAt = "wait" /\ pc \in {"ret", "callret"})
       => /\ ret.resp = NilResp
          /\ ret.err \in {CtxErr, "transport: " \o CtxErr}
    /\ exitVia = "terminal" => (~ret.resp.isNil /\ ret.err = Nil)

\* C6 witness: the wait was aborted with time left on its timer, after a
\* snapshot had been read.
C6_Witness ==
    exitVia = "ctxDone" /\ timer > 0 /\ LastOK /\ cancelAt = "wait"

\* C7: Call never polls with an empty task identifier: a submit response
\* without a task identifier is an error.
C7_NoEmptyTaskID ==
    (entry # "WaitForTask" /\ pc \in {"get", "wait", "ret"}) => taskID # ""

\* ------------------------------------------------------------------------
\* Recognition session: claims
\* ------------------------------------------------------------------------
\* C8: no audio frame reaches the transport before the session has read the
\* server's task-started event: a SendAudioFrame made earlier fails.
C8_NoFrameBeforeStarted ==
    \A c \in Conns : \A i \in 1..Len(wire[c]) :
        wire[c][i].k = "audio" => wire[c][i].acked

\* C9: no audio frame is written to the transport after the finish-task
\* message of Stop.
C9_NoFrameAfterFinish ==
    \A c \in Conns : \A i, j \in 1..Len(wire[c]) :
        (i < j /\ wire[c][i].k = "finish-task") => wire[c][j].k # "audio"

\* C10: Stop closes the connection only through its timeout case and never
\* before 10 time units have passed in its select; when its done channel is
\* closed within the window it returns through the done case and closes
\* nothing; when it leaves through the timeout case, done was not closed
\* within the window and the connection is closed before Stop returns.
C10_StopTimeout ==
    \A t \in Callers :
        /\ th[t].forced # 0
           => (th[t].via = "timeout" /\ th[t].elapsed >= StopTimeout)
        /\ th[t].via = "done" => (th[t].forced = 0 /\ th[t].doneAt >= 0)
        /\ th[t].via = "timeout"
           => /\ th[t].elapsed >= StopTimeout
              /\ th[t].doneAt = -1 \/ th[t].doneAt >= StopTimeout
        /\ (th[t].via = "timeout" /\ th[t].pc = "stop_final")
           => (th[t].forced # 0 /\ connState[th[t].forced] = "closed")
        /\ (th[t].pc = "stop_select" /\ th[t].done = "closed")
           => th[t].doneAt = th[t].elapsed

\* C10 witness: a Stop that timed out and closed the connection under a
\* reader that was still running.
C10_Witness ==
    \E t \in Callers :
        /\ th[t].pc = "stop_final"
        /\ th[t].forced # 0
        /\ wg = 1
        /\ rpc[th[t].forced] = "read"

\* ------------------------------------------------------------------------
\* Streaming sessions: lifecycle, errors, ordering and concurrency claims
\* ------------------------------------------------------------------------
\* The OnClose invocations made for the dialog session whose reader is k.
DlgOnCloseCount(k) ==
    Cardinality({i \in 1..Len(dcb) :
                    dcb[i].name = "OnClose" /\ dcb[i].by = k})

\* C11: every started session has OnClose invoked exactly once: never twice,
\* and once its reader loop has ended, never zero times.
C11_OnCloseExactlyOnce ==
    \A k \in DlgConns :
        /\ DlgOnCloseCount(k) <= 1
        /\ dr[k].pc = "exit" => DlgOnCloseCount(k) = 1

\* C12: a failed write is reported: when SendAudioFrame has returned a write
\* error in the only session started and that session's reader has ended,
\* without a panic, the session's callback has had OnError and, after it,
\* OnClose.
C12_WriteFailureNotified ==
    ( /\ nStart = 1
      /\ res["aud"] = [op |-> "SendAudioFrame", err |-> "write failed"]
      /\ rpc[1] = "exit"
      /\ ~crashed )
    => \E i, j \in 1..Len(cb[1]) :
          /\ i < j
          /\ cb[1][i].name = "OnError"
          /\ cb[1][j].name = "OnClose"

\* C13: an inbound Error event ends the reader loop: after the OnError
\* invoked for an Error directive, the reader that invoked it invokes no
\* callback method except OnClose.
C13_ErrorEndsDispatch ==
    \A i, j \in 1..Len(dcb) :
        ( /\ i < j
          /\ dcb[i].name = "OnError"
          /\ dcb[i].at > 0
          /\ dcb[j].by = dcb[i].by )
        => dcb[j].name = "OnClose"

\* The invocations of OnAudioData made for the message at position p of
\* connection c's inbound messages.
DlgAudioCallbacks(c, p) ==
    {i \in 1..Len(dcb) :
        dcb[i].name = "OnAudioData" /\ dcb[i].conn = c /\ dcb[i].at = p}

\* C14: the callbacks made for the inbound messages of a connection begin in
\* the order in which ReadMessage returned those messages, and OnAudioData is
\* invoked at most once per message and only for binary messages.
C14_DispatchInOrder ==
    /\ \A i, j \in 1..Len(dcb) :
          ( /\ i < j
            /\ dcb[i].at > 0
            /\ dcb[j].at > 0
            /\ dcb[i].conn = dcb[j].conn )
          => dcb[i].at < dcb[j].at
    /\ \A c \in DlgConns : \A p \in 1..Len(dIn[c]) :
          /\ Cardinality(DlgAudioCallbacks(c, p)) <= 1
          /\ dIn[c][p].m # "binary" => DlgAudioCallbacks(c, p) = {}

\* Caller t has a write in progress on a connection of the Recognition.
Writing(t) == th[t].pc \in {"start_write", "stop_write", "send_write"}

\* C15: no two writes to the same connection are in progress at once.
C15_OneWriter ==
    \A t, u \in Callers :
        (t # u /\ Writing(t) /\ Writing(u)) => th[t].conn # th[u].conn

\* C16: no two reader loops are blocked in ReadMessage on the same
\* connection.
C16_OneReader ==
    \A k, l \in Conns :
        (k # l /\ rpc[k] = "read" /\ rpc[l] = "read") => rconn[k] # rconn[l]

\* C17: callbacks of a session are non-reentrant: no two invokers are inside
\* methods of the callback at once for messages of the same connection.
C17_NonReentrant ==
    \A k, l \in DlgConns :
        (k # l /\ k \in dBusy /\ l \in dBusy) => dr[k].conn # dr[l].conn

\* The next step of caller t reads or writes r.running or r.taskID in Start,
\* which never takes r.mu.
UnlockedAccess(t) == th[t].pc \in {"start_dial", "start_write"} /\ mu # t

\* The next step of caller u is Stop's write of r.running (under r.mu).
WritesRunning(u) == th[u].pc = "stop_final"

\* C18: running and the task id are accessed under r.mu only: no thread is
\* about to write running while another is about to access it unlocked.
C18_LockProtects ==
    \A t, u \in Callers :
        t # u => ~(UnlockedAccess(t) /\ WritesRunning(u))

\* C19: no inbound message crashes the reader loop of the Recognition.
C19_MalformedNonFatal == ~crashed

\* Reader loops of the dialog are done with the message at position p of
\* connection c's inbound messages.
DlgHandled(c, p) ==
    \A k \in DlgConns :
        ~(dr[k].pc = "got" /\ dr[k].conn = c /\ dr[k].at = p)

\* C20: every inbound control message whose directive is not a recognized
\* name is dispatched: once handled, a callback invocation was made for it.
C20_UnknownDispatched ==
    \A c \in DlgConns : \A p \in 1..Len(dIn[c]) :
        (dIn[c][p].m = "other" /\ DlgHandled(c, p))
        => \E i \in 1..Len(dcb) : dcb[i].conn = c /\ dcb[i].at = p

\* ------------------------------------------------------------------------
\* Speech synthesis: claims (SynSpec)
\* ------------------------------------------------------------------------
RECURSIVE SynAudioOf(_)
\* The frames of the binary messages of a sequence, concatenated in order.
SynAudioOf(in) ==
    IF in = <<>> THEN <<>>
    ELSE IF in[1].t = "binary" THEN in[1].frame \o SynAudioOf(Tail(in))
    ELSE SynAudioOf(Tail(in))

RECURSIVE SynPick(_, _)
\* field f of the records of q, in order
SynPick(q, f) ==
    IF q = <<>> THEN <<>> ELSE <<q[1][f]>> \o SynPick(Tail(q), f)

SynIsBinary(m) == m.t = "binary"
SynHasSentence(m) == m.sentence # ""
SynIsAudioEvent(e) == e.name = "OnEvent" /\ e.frame # <<>>
SynReturned == spc = "ret" /\ sConn = "closed" /\ sIn # <<>>
SynLast == sIn[Len(sIn)]

C22_FailureEndsCall ==
    (spc = "ret" /\ sConn = "closed" /\ sWire # <<>> /\ sret.err # Nil) =>
        /\ sret.result = NilResult
        /\ sret.err \in {TaskFailedErr, ReadErr}
        /\ sret.err = TaskFailedErr <=>
             (sIn # <<>> /\ SynLast.t = "task-failed")
        /\ \A i \in 1..(Len(sIn) - 1) :
             sIn[i].t \notin {"task-failed", "task-finished"}
        /\ sHasCb =>
             /\ Len(scb) >= 2
             /\ scb[Len(scb)] = SynCb("OnClose", <<>>, "", "")
             /\ scb[Len(scb) - 1] = SynCb("OnError", <<>>, "", sret.err)
             /\ \A i \in 1..(Len(scb) - 1) : scb[i].name # "OnClose"
        /\ ~ENABLED (SynRecv \/ SynReadError)

C22_Witness ==
    /\ spc = "ret"
    /\ sHasCb
    /\ Len(sIn) = 2
    /\ sIn[1].t = "binary"
    /\ sIn[2].t = "task-failed"
    /\ sAudio # <<>>
    /\ sret = [result |-> NilResult, err |-> TaskFailedErr]

\* ------------------------------------------------------------------------
\* Multimodal dialog: end of a turn and end of the session (DlgSpec)
\* ------------------------------------------------------------------------
\* A call of StopSpeech on a started dialog returns.
StopSpeechStep ==
    /\ dConn # 0
    /\ dCalls' # dCalls
    /\ dpc' = "idle"
    /\ dres'.op = "StopSpeech"

DlgLoopLeft(k) == dr[k].pc \in {"defer", "closing", "exit"}

\* C23: StopSpeech writes its message and changes nothing else: the
\* connection, the dialog's fields, the done channel and every reader are
\* as they were, so the reader goes on dispatching and SendAudio goes on
\* writing.  A connection stops being open only in a call of Close or when
\* a read on it fails, and a reader leaves its loop only on a read error.
C23_StopSpeechEndsTurnOnly ==
    [][ /\ StopSpeechStep =>
             UNCHANGED <<dConn, dTaskID, dDialogID, dDone, dCrashed, dState,
                         dIn, dr, dcb, dBusy>>
        /\ \A c \in DlgConns :
             (dState[c] = "open" /\ dState'[c] # "open") =>
                 \/ dState'[c] = "closed" /\ dres'.op = "Close"
                                          /\ dCalls' # dCalls
                 \/ dState'[c] = "failed" /\ \E k \in DlgConns :
                      /\ dr[k].pc = "read" /\ dr[k].conn = c
                      /\ dr'[k].msg = "readerr"
        /\ \A k \in DlgConns :
             (~DlgLoopLeft(k) /\ DlgLoopLeft(k)') =>
                 /\ dr[k].msg = "readerr"
                 /\ dState[dr[k].conn] # "open" ]_vars

C23_Witness ==
    /\ dres = [op |-> "StopSpeech", err |-> Nil]
    /\ dpc = "idle"
    /\ dConn # 0
    /\ dState[dConn] = "open"
    /\ dDone = "open"
    /\ \E i \in 1..Len(dWire[dConn]) : dWire[dConn][i].k = "StopSpeech"
    /\ dr[dConn].pc = "read"
    /\ ENABLED DlgRecv(dConn)

\* ------------------------------------------------------------------------
\* Recognition: the end of a session (RecSpec)
\* ------------------------------------------------------------------------
\* What the reader's deferred call hands to the callback: OnClose() has no
\* parameter, so the invocation after a clean stop is this one.
CleanStopOnClose == Callback("readLoop", "OnClose")

\* The reader that was reading connection c has returned.
ReaderOfGone(k, c) == rconn[k] = c /\ rpc[k] = "exit"

\* C24: when Stop's wait timed out and Stop closed the connection, the
\* OnClose invocation of that connection's reader is distinguishable from
\* the OnClose invocation of a clean stop.
C24_ForcedCloseReported ==
    \A t \in Callers : \A k \in Conns :
        (~crashed /\ th[t].forced # 0 /\ th[t].via = "timeout"
           /\ ReaderOfGone(k, th[t].forced)) =>
            \E i \in 1..Len(cb[k]) :
                cb[k][i].name = "OnClose" /\ cb[k][i] # CleanStopOnClose

\* A session of the Recognition has reached its end: a reader has returned
\* (OnClose was invoked) and no call is in progress.
SessionClosed ==
    /\ \E k \in Conns : rpc[k] = "exit"
    /\ \A t \in Callers : th[t].pc = "idle"

\* C25: once a session of the Recognition is closed, a further Start does
\* not take it out of that state: no Start called from then on goes on to
\* dial a connection.
C25_ClosedIsTerminal ==
    [][ (SessionClosed /\ ~crashed) =>
            \A t \in Callers : th'[t].pc # "start_dial" ]_vars

\* C26: when a session of the Recognition is closed (its reader has
\* returned, Stop has run to its end and nothing is in progress), its
\* connection has been released: it is not open any more.
C26_ClosedReleasesConnection ==
    (SessionClosed /\ ~running /\ ~crashed) =>
        \A k \in Conns : rpc[k] = "exit" => connState[rconn[k]] # "open"

\* ------------------------------------------------------------------------
\* Speech synthesis: cancellation (SynFairSpec)
\* ------------------------------------------------------------------------
SynOnCloseCount == Len(SelectSeq(scb, LAMBDA e : e.name = "OnClose"))

\* C27: when the context passed to Call is cancelled while the connection
\* is established, the call ends: eventually Call has returned, the
\* connection is closed and OnClose has been invoked exactly once, whatever
\* the server sends or does not send.
C27_CancelEndsSession ==
    (sCtxDone /\ sConn = "open") ~>
        (spc = "ret" /\ sConn = "closed" /\ (sHasCb => SynOnCloseCount = 1))

\* ------------------------------------------------------------------------
\* Recognition: the running flag and finish-task (RecSpec)
\* ------------------------------------------------------------------------
AlreadyStarted == [op |-> "Start", err |-> "recognition already started"]

ReaderGone == \E k \in Conns : rpc[k] = "exit"

\* C28: no step of the reader loop changes running.  running becomes true
\* only when Start's dial succeeds, and false only at the end of Stop or
\* when Start's write of run-task fails.  So while running is true after
\* the reader has returned, a call that begins does not dial (Start returns
\* "recognition already started") and SendAudioFrame is not turned down.
C28_ReaderLeavesRunning ==
    [][ /\ (rpc' # rpc \/ rconn' # rconn \/ cb' # cb) => running' = running
        /\ (running /\ ~running') =>
             \E t \in Callers :
                 \/ th[t].pc = "stop_final" /\ th'[t].pc = "idle"
                 \/ th[t].pc = "start_write" /\ th'[t].pc = "idle"
                      /\ res'[t] = [op |-> "Start", err |-> "write failed"]
        /\ (~running /\ running') =>
             \E t \in Callers :
                 th[t].pc = "start_dial" /\ th'[t].pc = "start_write"
        /\ (ReaderGone /\ running /\ nCalls' # nCalls) =>
             \A t \in Callers :
                 /\ th'[t].pc # "start_dial"
                 /\ res'[t] \in {res[t], AlreadyStarted} ]_vars

C28_Witness ==
    /\ ~crashed
    /\ rpc[1] = "exit"
    /\ running
    /\ res["ctl"] = AlreadyStarted
    /\ th["aud"].pc = "send_write"

FinishTasks(c) == Len(SelectSeq(wire[c], LAMBDA w : w.k = "finish-task"))

\* C29: at most one finish-task is sent per started session, also when two
\* calls of Stop overlap.
C29_OneFinishTask ==
    ~crashed => \A c \in Conns : FinishTasks(c) <= 1

\* ------------------------------------------------------------------------
\* Task poller: the returns of WaitForTask (Spec)
\* ------------------------------------------------------------------------
\* C30: WaitForTask takes only SUCCEEDED, FAILED and CANCELED as terminal,
\* and every return of it is exactly one of three: the first terminal
\* snapshot with a nil error, the error of the status read that failed with
\* no snapshot, or the context's error with no snapshot.  The loop goes on
\* only after a read that succeeded with a status that is not terminal, so
\* the terminal snapshot returned is the first one read.
C30_WaitReturns ==
    /\ (pc = "wait" \/ (pc = "get" /\ step > 1)) =>
         /\ last.err = Nil
         /\ ~last.resp.isNil
         /\ last.resp.task_status \notin TerminalNames
    /\ (pc \in {"ret", "callret"} /\ exitVia # Nil) =>
        /\ exitVia \in {"terminal", "readError", "ctxDone"}
        /\ exitVia = "terminal" <=> ret.err = Nil
        /\ exitVia = "ctxDone" <=> ret.err = CtxErr
        /\ exitVia = "terminal" =>
             /\ ret.resp = last.resp
             /\ ~ret.resp.isNil
             /\ ret.resp.task_status \in TerminalNames
        /\ exitVia = "readError" =>
             ret = [resp |-> NilResp, err |-> last.err]
        /\ exitVia = "ctxDone" =>
             /\ ret.resp = NilResp
             /\ cancelled
             /\ last.err = Nil
             /\ last.resp.task_status \notin TerminalNames
        /\ \A i \in 1..Len(reads) :
             i < step => /\ reads[i].kind = "ok"
                         /\ reads[i].status \notin TerminalNames

C30_Witness ==
    /\ pc = "ret"
    /\ exitVia = "terminal"
    /\ Len(reads) = 3
    /\ step = 3
    /\ reads[1] = [kind |-> "ok", status |-> TaskStatusUnknown]
    /\ reads[2] = [kind |-> "ok", status |-> ""]
    /\ reads[3] = [kind |-> "ok", status |-> TaskStatusCanceled]
    /\ ret = [resp |-> Snapshot(TaskStatusCanceled), err |-> Nil]

====
